---- MODULE Spec2Model ----
(***************************************************************************)
(* LeetCode user fetcher: the command-line tool (leetcode_fetcher.py) and  *)
(* the Streamlit page (app.py).  One run reads a list of usernames, calls  *)
(* the remote GraphQL endpoint once per username, and renders the records. *)
(*                                                                         *)
(* Text is a sequence of one-character strings, so that split and strip    *)
(* are computed as Python computes them.  A JSON value is a tagged record  *)
(* ([t |-> "null"], [t |-> "int", v |-> 5], [t |-> "obj", v |-> record],   *)
(* ...), so that a missing key, a null and an empty object stay distinct.  *)
(***************************************************************************)
EXTENDS Integers, Sequences, FiniteSets

VARIABLES entry, source, usernames, results, response, raised, fetches, out, pc

vars == <<entry, source, usernames, results, response, raised, fetches, out, pc>>

(***************************************************************************)
(* Bounds of the model.                                                    *)
(***************************************************************************)
\* longest input text enumerated character by character
MaxLen == 3
\* longest batch in which every request may get a different answer; in a
\* longer batch every request gets the answer the first one got
MaxVaried == 4

(***************************************************************************)
(* Program constants.                                                      *)
(***************************************************************************)
CliCap == 100
WebCap == 200
HTTP_OK == 200

(***************************************************************************)
(* Python text operations.                                                 *)
(***************************************************************************)
Chars == {"a", "b", ",", "\n", " "}

IsSpace(c) == c \in {" ", "\n"}

RECURSIVE lstrip(_)
lstrip(s) == IF s # <<>> /\ IsSpace(Head(s)) THEN lstrip(Tail(s)) ELSE s

RECURSIVE rstrip(_)
rstrip(s) ==
  IF s # <<>> /\ IsSpace(s[Len(s)]) THEN rstrip(SubSeq(s, 1, Len(s) - 1)) ELSE s

RECURSIVE JoinChars(_)
JoinChars(s) == IF s = <<>> THEN "" ELSE Head(s) \o JoinChars(Tail(s))

\* str.strip(): leading and trailing whitespace removed
strip(s) == JoinChars(rstrip(lstrip(s)))

\* str.split(sep): one more piece than there are separators.  The pieces of
\* s[lo..hi] are those of its two halves, the last piece of the first half
\* running on into the first piece of the second.
RECURSIVE SplitRange(_, _, _, _)
SplitRange(s, sep, lo, hi) ==
  IF lo > hi THEN << <<>> >>
  ELSE IF lo = hi THEN (IF s[lo] = sep THEN << <<>>, <<>> >> ELSE << <<s[lo]>> >>)
  ELSE LET mid == (lo + hi) \div 2
           left == SplitRange(s, sep, lo, mid)
           right == SplitRange(s, sep, mid + 1, hi)
       IN  SubSeq(left, 1, Len(left) - 1)
             \o << left[Len(left)] \o right[1] >>
             \o Tail(right)

split(s, sep) == SplitRange(s, sep, 1, Len(s))

\* str.splitlines(): the lines without their line breaks; a final line
\* break opens no further line
splitlines(s) ==
  LET pieces == split(s, "\n")
  IN  IF pieces[Len(pieces)] = <<>> THEN SubSeq(pieces, 1, Len(pieces) - 1)
      ELSE pieces

\* file.readlines(): every line keeps its line break
readlines(s) ==
  LET pieces == split(s, "\n")
      line(k) == IF k < Len(pieces) THEN Append(pieces[k], "\n") ELSE pieces[k]
  IN  IF pieces[Len(pieces)] = <<>>
      THEN [k \in 1..(Len(pieces) - 1) |-> line(k)]
      ELSE [k \in 1..Len(pieces) |-> line(k)]

StripAll(pieces) == [k \in 1..Len(pieces) |-> strip(pieces[k])]

(***************************************************************************)
(* JSON values and Python's dynamic operations on them.                    *)
(***************************************************************************)
Null == [t |-> "null"]
Num(n) == [t |-> "int", v |-> n]
Str(s) == [t |-> "str", v |-> s]
List(s) == [t |-> "list", v |-> s]
Obj(r) == [t |-> "obj", v |-> r]
EmptyObj == [t |-> "obj", v |-> <<>>]

\* the result of an evaluation that may raise
Ok(x) == [exc |-> "none", val |-> x]
Raise(e) == [exc |-> e]

\* x[k] for a string key k: KeyError when a dict lacks the key, TypeError
\* when x is None, a list, a str or a number
Subscript(x, k) ==
  IF x.t = "obj"
  THEN IF k \in DOMAIN x.v THEN Ok(x.v[k]) ELSE Raise("KeyError")
  ELSE Raise("TypeError")

\* x.get(k, default) on a dict
Get(x, k, default) ==
  IF x.t = "obj"
  THEN IF k \in DOMAIN x.v THEN Ok(x.v[k]) ELSE Ok(default)
  ELSE Raise("AttributeError")

\* bool(x)
Truthy(x) ==
  CASE x.t = "null" -> FALSE
    [] x.t = "int" -> x.v # 0
    [] x.t = "str" -> x.v # ""
    [] x.t = "list" -> x.v # <<>>
    [] x.t = "obj" -> DOMAIN x.v # {}

\* the items a for loop over x visits: the elements of a list, the keys of
\* a dict, the characters of a str; None and numbers are not iterable
Items(x) ==
  CASE x.t = "list" -> Ok(x.v)
    [] x.t = "obj" -> Ok([k \in 1..Cardinality(DOMAIN x.v) |-> Str("key")])
    [] x.t = "str" -> Ok(IF x.v = "" THEN <<>> ELSE <<Str("c")>>)
    [] OTHER -> Raise("TypeError")

\* sum(item["count"] for item in submissions)
RECURSIVE SumCounts(_, _)
SumCounts(items, k) ==
  IF k > Len(items) THEN Ok(0)
  ELSE LET c == Subscript(items[k], "count")
       IN  IF c.exc # "none" THEN c
           ELSE IF c.val.t # "int" THEN Raise("TypeError")
           ELSE LET rest == SumCounts(items, k + 1)
                IN  IF rest.exc # "none" THEN rest ELSE Ok(c.val.v + rest.val)

\* [badge["displayName"] for badge in badges]
RECURSIVE DisplayNames(_, _)
DisplayNames(items, k) ==
  IF k > Len(items) THEN Ok(<<>>)
  ELSE LET n == Subscript(items[k], "displayName")
       IN  IF n.exc # "none" THEN n
           ELSE LET rest == DisplayNames(items, k + 1)
                IN  IF rest.exc # "none" THEN rest
                    ELSE Ok(<<n.val>> \o rest.val)

\* ", ".join(names): TypeError when an item is not a str
RECURSIVE JoinText(_)
JoinText(names) ==
  IF names = <<>> THEN ""
  ELSE IF Len(names) = 1 THEN names[1].v
  ELSE names[1].v \o ", " \o JoinText(Tail(names))

Join(names) ==
  IF \A k \in 1..Len(names) : names[k].t = "str" THEN Ok(Str(JoinText(names)))
  ELSE Raise("TypeError")

\* str(status_code) inside the f-string, for the status codes of the model
StatusText(code) ==
  CASE code = 200 -> "200"
    [] code = 404 -> "404"
    [] code = 500 -> "500"

(***************************************************************************)
(* fetch_user_data: the remote call has been made and answered `resp`      *)
(* ([exc, status_code, body]); body is [valid, detail, value]: whether the *)
(* text parses as JSON, the decoder's message when it does not, and the    *)
(* parsed value when it does.  The fields of a returned dict hold Python   *)
(* values in the same tagged form as JSON values, except username (always  *)
(* a str) and problems_solved (always an int).                             *)
(***************************************************************************)
Failure(username, error) == [username |-> username, error |-> error]

Success(username, ranking, solved, badges) ==
  [username |-> username, ranking |-> ranking, problems_solved |-> solved,
   badges |-> badges]

\* a variant of Halve that rounds to the nearest integer
Halve_RoundUp(total) == (total + 1) \div 2

\* total // 2
Halve(total) == total \div 2

\* the return statement: the dict is built field by field, and the two
\* files differ in the badges field only
BuildRecord(e, username, profile, submissions, badges) ==
  LET ranking == Subscript(profile, "ranking")
      total == IF Items(submissions).exc # "none" THEN Items(submissions)
               ELSE SumCounts(Items(submissions).val, 1)
      names == IF Items(badges).exc # "none" THEN Items(badges)
               ELSE DisplayNames(Items(badges).val, 1)
      joined == IF names.exc # "none" THEN names ELSE Join(names.val)
  IN  IF ranking.exc # "none" THEN ranking
      ELSE IF total.exc # "none" THEN total
      ELSE IF e = "cli"
      THEN IF names.exc # "none" THEN names
           ELSE Ok(Success(username, ranking.val, Halve(total.val),
                           List(names.val)))
      ELSE IF ~Truthy(badges)
      THEN Ok(Success(username, ranking.val, Halve(total.val), Str("None")))
      ELSE IF joined.exc # "none" THEN joined
      ELSE Ok(Success(username, ranking.val, Halve(total.val), joined.val))

\* the body of the try block, after response.json() returned `data`
ParseUser(e, username, data) ==
  IF data.t # "obj" THEN Raise("TypeError")
  ELSE IF "errors" \in DOMAIN data.v
  THEN Ok(Failure(username, data.v["errors"]))
  ELSE LET d == Subscript(data, "data")
       IN  IF d.exc # "none" THEN d
           ELSE LET user_data == Subscript(d.val, "matchedUser")
                IN  IF user_data.exc # "none" THEN user_data
                    ELSE IF ~Truthy(user_data.val)
                    THEN Ok(Failure(username, Str("User not found.")))
                    ELSE LET profile == Subscript(user_data.val, "profile")
                             stats == Subscript(user_data.val, "submitStats")
                             submissions ==
                               IF stats.exc # "none" THEN stats
                               ELSE Subscript(stats.val, "acSubmissionNum")
                             badges == Get(user_data.val, "badges", List(<<>>))
                         IN  IF profile.exc # "none" THEN profile
                             ELSE IF submissions.exc # "none" THEN submissions
                             ELSE IF badges.exc # "none" THEN badges
                             ELSE BuildRecord(e, username, profile.val,
                                              submissions.val, badges.val)

fetch_user_data(e, username, resp) ==
  IF resp.exc # "none" THEN Raise(resp.exc)
  ELSE IF resp.status_code # HTTP_OK
  THEN Ok(Failure(username,
                  Str("API error: " \o StatusText(resp.status_code))))
  ELSE IF ~resp.body.valid
  THEN Ok(Failure(username,
                  Str("Invalid API response: " \o resp.body.detail)))
  ELSE ParseUser(e, username, resp.body.value)

(***************************************************************************)
(* The remote endpoint's possible answers to one request.                  *)
(***************************************************************************)
\* largest number of acSubmissionNum entries, and largest count in one
MaxSubs == 2
MaxCount == 2

JsonBody(value) == [valid |-> TRUE, detail |-> "", value |-> value]
NotJson ==
  [valid |-> FALSE, detail |-> "Expecting value: line 1 column 1 (char 0)",
   value |-> Null]
Resp(code, body) == [exc |-> "none", status_code |-> code, body |-> body]
\* requests.post raised instead of returning a response
TransportFailure == [exc |-> "ConnectionError", status_code |-> 0, body |-> NotJson]

Difficulty(k) == IF k = 1 THEN "All" ELSE IF k = 2 THEN "Easy"
                 ELSE IF k = 3 THEN "Medium" ELSE "Hard"
Submission(d, c) == Obj([difficulty |-> Str(d), count |-> Num(c)])
Submissions(counts) ==
  [k \in 1..Len(counts) |-> Submission(Difficulty(k), counts[k])]
\* the spec's example: All 20, Easy 10, Medium 8, Hard 2
ExampleCounts == <<20, 10, 8, 2>>
SubmissionLists ==
  {Submissions(c) : c \in UNION {[1..n -> 0..MaxCount] : n \in 0..MaxSubs}}
    \cup {Submissions(ExampleCounts)}
    \cup {<<Submission("All", 1), Obj([difficulty |-> Str("Easy")])>>}

Badge(name) == Obj([displayName |-> Str(name)])
BadgeLists == {<<>>, <<Badge("Knight")>>, <<Badge("Knight"), Badge("Guardian")>>,
               <<EmptyObj>>}
Rankings == {Null, Num(50), Num(1000)}

Profile(rank) == Obj([realName |-> Str("A"), ranking |-> rank])
Stats(subs) == Obj([acSubmissionNum |-> List(subs)])
UserWith(rank, subs, badges) ==
  Obj([profile |-> Profile(rank), submitStats |-> Stats(subs), badges |-> badges])
UserNoBadges(rank, subs) ==
  Obj([profile |-> Profile(rank), submitStats |-> Stats(subs)])
WellFormedUsers ==
  {UserWith(r, s, List(b)) : r \in Rankings, s \in SubmissionLists, b \in BadgeLists}
    \cup {UserWith(r, s, Null) : r \in Rankings, s \in SubmissionLists}
    \cup {UserNoBadges(r, s) : r \in Rankings, s \in SubmissionLists}
MalformedUsers ==
  LET s == Stats(Submissions(ExampleCounts))
      b == List(<<Badge("Knight")>>)
  IN  { Obj([submitStats |-> s, badges |-> b]),
        Obj([profile |-> Null, submitStats |-> s, badges |-> b]),
        Obj([profile |-> EmptyObj, submitStats |-> s, badges |-> b]),
        Obj([profile |-> Profile(Num(50)), badges |-> b]),
        Obj([profile |-> Profile(Num(50)), submitStats |-> Null, badges |-> b]),
        Obj([profile |-> Profile(Num(50)), submitStats |-> EmptyObj, badges |-> b]) }

Found(user) == Obj([data |-> Obj([matchedUser |-> user])])
ErrorsPayload == List(<<Obj([message |-> Str("boom")])>>)
ErrorBodies ==
  { Obj([errors |-> ErrorsPayload]),
    Obj([errors |-> ErrorsPayload, data |-> Null]),
    Obj([errors |-> ErrorsPayload, data |-> Obj([matchedUser |-> Null])]) }
JsonValues ==
  {Found(u) : u \in WellFormedUsers \cup MalformedUsers \cup {Null, EmptyObj}}
    \cup {Obj([data |-> EmptyObj]), Obj([data |-> Null]), EmptyObj}
    \cup ErrorBodies
    \cup {List(<<>>), Null}

ErrorStatuses == {404, 500}

Responses ==
  {TransportFailure}
    \cup {Resp(HTTP_OK, JsonBody(v)) : v \in JsonValues}
    \cup {Resp(HTTP_OK, NotJson)}
    \cup {Resp(c, b) : c \in ErrorStatuses,
                       b \in {NotJson, JsonBody(Obj([errors |-> ErrorsPayload])),
                              JsonBody(Found(Null))}}

\* the answers a whole run draws from: one of each kind that the batch and
\* the renderers treat differently
RunResponses ==
  { TransportFailure,
    Resp(404, NotJson),
    Resp(HTTP_OK, JsonBody(Found(Null))),
    Resp(HTTP_OK, JsonBody(EmptyObj)),
    Resp(HTTP_OK, JsonBody(Found(UserWith(Num(50), Submissions(ExampleCounts),
                                          List(<<Badge("Knight")>>))))),
    Resp(HTTP_OK, JsonBody(Found(UserWith(Num(1000), Submissions(<<1, 2>>),
                                          List(<<>>))))),
    Resp(HTTP_OK, JsonBody(Found(UserNoBadges(Null, <<>>)))),
    Resp(HTTP_OK, JsonBody(Found(UserWith(Num(50), <<>>, Null)))) }

NoResponse == [exc |-> "unset", status_code |-> 0, body |-> NotJson]

(***************************************************************************)
(* The input of a run.                                                     *)
(***************************************************************************)
ShortTexts == UNION {[1..n -> Chars] : n \in 0..MaxLen}
\* n times "a", separated by sep
LongText(n, sep) == [k \in 1..(2 * n - 1) |-> IF k % 2 = 1 THEN "a" ELSE sep]
LongTexts(cap, sep) == {LongText(cap, sep), LongText(cap + 1, sep)}

Src(kind, text) == [kind |-> kind, text |-> text]
Sources(e) ==
  IF e = "cli"
  THEN {Src("none", <<>>), Src("file_missing", <<>>), Src("file_unreadable", <<>>)}
         \cup {Src("file", t) : t \in ShortTexts \cup LongTexts(CliCap, "\n")}
         \cup {Src("usernames", t) : t \in ShortTexts \cup LongTexts(CliCap, ",")}
  ELSE {Src("none", <<>>), Src("upload_undecodable", <<>>)}
         \cup {Src("upload", t) : t \in ShortTexts \cup LongTexts(WebCap, "\n")}

\* a variant of get_usernames whose size check lets one more username pass
get_usernames_OffByOne(src) ==
  LET checked(names) ==
        IF Len(names) > CliCap + 1
        THEN [exc |-> "ValueError",
              msg |-> "The number of usernames cannot exceed 100."]
        ELSE [exc |-> "none", val |-> names]
  IN  IF src.kind = "file" THEN checked(StripAll(readlines(src.text)))
      ELSE IF src.kind = "file_missing"
      THEN [exc |-> "ValueError", msg |-> "File not found: names.txt"]
      ELSE IF src.kind = "file_unreadable"
      THEN [exc |-> "PermissionError", msg |-> "Permission denied: names.txt"]
      ELSE IF src.kind = "usernames" /\ src.text # <<>>
      THEN checked(StripAll(split(src.text, ",")))
      ELSE [exc |-> "ValueError",
            msg |-> "Provide either a file path or a list of usernames."]

\* leetcode_fetcher.get_usernames: the list, or the exception it leaves with
get_usernames(src) ==
  LET checked(names) ==
        IF Len(names) > CliCap
        THEN [exc |-> "ValueError",
              msg |-> "The number of usernames cannot exceed 100."]
        ELSE [exc |-> "none", val |-> names]
  IN  IF src.kind = "file" THEN checked(StripAll(readlines(src.text)))
      ELSE IF src.kind = "file_missing"
      THEN [exc |-> "ValueError", msg |-> "File not found: names.txt"]
      ELSE IF src.kind = "file_unreadable"
      THEN [exc |-> "PermissionError", msg |-> "Permission denied: names.txt"]
      ELSE IF src.kind = "usernames" /\ src.text # <<>>
      THEN checked(StripAll(split(src.text, ",")))
      ELSE [exc |-> "ValueError",
            msg |-> "Provide either a file path or a list of usernames."]

StError(msg) == [fn |-> "st.error", msg |-> msg]

\* app.get_usernames_from_file: the list it returns and what it shows
get_usernames_from_file(src) ==
  IF src.kind = "upload_undecodable"
  THEN [val |-> <<>>, shown |-> <<StError("Error reading file: invalid start byte")>>]
  ELSE LET names == StripAll(splitlines(src.text))
       IN  IF Len(names) > WebCap
           THEN [val |-> <<>>,
                 shown |-> <<StError("The number of usernames cannot exceed 100.")>>]
           ELSE [val |-> names, shown |-> <<>>]

(***************************************************************************)
(* Rendering.                                                              *)
(***************************************************************************)
PrintLine(msg) == [fn |-> "print", msg |-> msg]
PrintError(e) == [fn |-> "print", msg |-> "Error: ", exc |-> e]
Progress(fn, n) == [fn |-> fn, msg |-> "Fetching data for {} users...", n |-> n]
StException(e) == [fn |-> "st.exception", exc |-> e]
NaN == [t |-> "nan"]

\* leetcode_fetcher.display_data: one table.add_row per record, in the
\* order of the list
TableRow(user) ==
  IF "error" \in DOMAIN user
  THEN Ok(<<Str(user.username), Str("Error"), Str("-"), Str("-")>>)
  ELSE LET joined == IF user.badges.t = "list" THEN Join(user.badges.v)
                     ELSE Raise("TypeError")
       IN  IF Truthy(user.badges) /\ joined.exc # "none" THEN joined
           ELSE Ok(<<Str(user.username),
                     IF Truthy(user.ranking) THEN user.ranking ELSE Str("N/A"),
                     Num(user.problems_solved),
                     IF Truthy(user.badges) THEN joined.val ELSE Str("None")>>)

cli_display_data(data) ==
  LET rows == [k \in 1..Len(data) |-> TableRow(data[k])]
  IN  IF \E k \in 1..Len(data) : rows[k].exc # "none"
      THEN {Raise("TypeError")}
      ELSE {Ok([fn |-> "print_table",
                field_names |-> <<"Username", "Ranking", "Problems Solved", "Badges">>,
                rows |-> [k \in 1..Len(data) |-> rows[k].val]])}

\* pd.DataFrame(data): one column per key that occurs in some dict, a
\* missing value (NaN) where a dict lacks the key or holds None
Columns(data) == UNION {DOMAIN data[k] : k \in 1..Len(data)}

FrameCell(user, c) ==
  IF c \notin DOMAIN user THEN NaN
  ELSE IF c = "username" THEN Str(user.username)
  ELSE IF c = "problems_solved" THEN Num(user.problems_solved)
  ELSE IF user[c] = Null THEN NaN
  ELSE user[c]

DataFrame(data) ==
  [k \in 1..Len(data) |-> [c \in Columns(data) |-> FrameCell(data[k], c)]]

\* the rows whose `by` is missing (or is not), in their order
RECURSIVE SelectRange(_, _, _, _, _)
SelectRange(rows, by, missing, lo, hi) ==
  IF lo > hi THEN <<>>
  ELSE IF lo = hi
  THEN (IF (rows[lo][by] = NaN) = missing THEN <<rows[lo]>> ELSE <<>>)
  ELSE LET mid == (lo + hi) \div 2
       IN  SelectRange(rows, by, missing, lo, mid)
             \o SelectRange(rows, by, missing, mid + 1, hi)

SelectRows(rows, by, missing) == SelectRange(rows, by, missing, 1, Len(rows))

RemoveOne(rows, r) ==
  LET k == CHOOSE j \in 1..Len(rows) : rows[j] = r
  IN  SubSeq(rows, 1, k - 1) \o SubSeq(rows, k + 1, Len(rows))

\* the orders an ascending sort that is not stable may leave rows in: any
\* of the least rows first, then the others likewise (equal rows have one
\* order)
RECURSIVE Ascending(_, _)
Ascending(rows, by) ==
  IF \A k \in 1..Len(rows) : rows[k] = rows[1] THEN {rows}
  ELSE LET least == {rows[k] : k \in {j \in 1..Len(rows) :
                       \A i \in 1..Len(rows) : rows[j][by].v <= rows[i][by].v}}
       IN  UNION {{<<r>> \o rest : rest \in Ascending(RemoveOne(rows, r), by)}
                   : r \in least}

\* df.sort_values(by=..., ascending=True): the default quicksort, missing
\* values last in their original order
sort_values(df, by) ==
  {sorted \o SelectRows(df, by, TRUE) :
     sorted \in Ascending(SelectRows(df, by, FALSE), by)}

\* app.display_data
web_display_data(data) ==
  IF data # <<>>
  THEN IF "ranking" \notin Columns(data) THEN {Raise("KeyError")}
       ELSE {Ok([fn |-> "st.dataframe", rows |-> rows]) :
               rows \in sort_values(DataFrame(data), "ranking")}
  ELSE {Ok([fn |-> "st.warning", msg |-> "No data to display."])}

display_data(e, data) ==
  IF e = "cli" THEN cli_display_data(data) ELSE web_display_data(data)

(***************************************************************************)
(* A run of one of the two programs.                                       *)
(***************************************************************************)
Entries == {"cli", "web"}

Init ==
  /\ entry \in Entries
  /\ source \in Sources(entry)
  /\ usernames = <<>>
  /\ results = <<>>
  /\ response = NoResponse
  /\ raised = "none"
  /\ fetches = 0
  /\ out = <<>>
  /\ pc = "start"

\* an exception leaves the step: the CLI's main catches it and prints it,
\* Streamlit shows it; both end the run
Abort(e) ==
  /\ raised' = e
  /\ out' = Append(out, IF entry = "cli" THEN PrintError(e) ELSE StException(e))
  /\ pc' = "exit"

\* leetcode_fetcher __main__ up to the fetch loop
CliReadInput ==
  /\ pc = "start"
  /\ entry = "cli"
  /\ LET r == get_usernames(source)
     IN  IF r.exc # "none"
         THEN /\ out' = Append(out, PrintLine("Error: " \o r.msg))
              /\ pc' = "exit"
              /\ UNCHANGED usernames
         ELSE /\ usernames' = r.val
              /\ out' = Append(out, Progress("print", Len(r.val)))
              /\ pc' = "fetching"
  /\ UNCHANGED <<entry, source, results, response, raised, fetches>>

\* app.main up to the fetch loop
WebReadInput ==
  /\ pc = "start"
  /\ entry = "web"
  /\ IF source.kind = "none"
     THEN /\ pc' = "exit"
          /\ UNCHANGED <<usernames, out>>
     ELSE LET r == get_usernames_from_file(source)
          IN  /\ usernames' = r.val
              /\ IF r.val # <<>>
                 THEN /\ out' = (out \o r.shown) \o <<Progress("st.write", Len(r.val))>>
                      /\ pc' = "fetching"
                 ELSE /\ out' = out \o r.shown
                      /\ pc' = "exit"
  /\ UNCHANGED <<entry, source, results, response, raised, fetches>>

\* a variant of the loop's turn that appends the record it fetched twice
FetchWith_AppendTwice(resp) ==
  /\ pc = "fetching"
  /\ Len(results) < Len(usernames)
  /\ fetches' = fetches + 1
  /\ response' = resp
  /\ LET r == fetch_user_data(entry, usernames[Len(results) + 1], resp)
     IN  IF r.exc = "none"
         THEN /\ results' = Append(Append(results, r.val), r.val)
              /\ UNCHANGED <<raised, out, pc>>
         ELSE /\ Abort(r.exc)
              /\ UNCHANGED results
  /\ UNCHANGED <<entry, source, usernames>>

\* one turn of fetch_all_users' loop: one request, answered by `resp`
FetchWith(resp) ==
  /\ pc = "fetching"
  /\ Len(results) < Len(usernames)
  /\ fetches' = fetches + 1
  /\ response' = resp
  /\ LET r == fetch_user_data(entry, usernames[Len(results) + 1], resp)
     IN  IF r.exc = "none"
         THEN /\ results' = Append(results, r.val)
              /\ UNCHANGED <<raised, out, pc>>
         ELSE /\ Abort(r.exc)
              /\ UNCHANGED results
  /\ UNCHANGED <<entry, source, usernames>>

\* the answers the remote may give to the next request of a run
Answers ==
  IF Len(usernames) <= MaxVaried \/ fetches = 0 THEN RunResponses ELSE {response}

FetchNext == \E resp \in Answers : FetchWith(resp)

\* fetch_all_users returns and display_data renders its result
Display ==
  /\ pc = "fetching"
  /\ Len(results) = Len(usernames)
  /\ \E r \in display_data(entry, results) :
       IF r.exc = "none"
       THEN /\ out' = Append(out, r.val)
            /\ pc' = "exit"
            /\ UNCHANGED raised
       ELSE Abort(r.exc)
  /\ UNCHANGED <<entry, source, usernames, results, response, fetches>>

Next == CliReadInput \/ WebReadInput \/ FetchNext \/ Display

Spec == Init /\ [][Next]_vars

(***************************************************************************)
(* Runs of one username against every answer of the remote: the           *)
(* specification under which fetch_user_data itself is examined.           *)
(***************************************************************************)
OneName == {<<"a">>, <<"a", "b">>}

InitFetch ==
  /\ Init
  /\ source \in {Src(IF entry = "cli" THEN "usernames" ELSE "upload", t) : t \in OneName}

FetchAny == \E resp \in Responses : FetchWith(resp)

NextFetch == CliReadInput \/ WebReadInput \/ FetchAny \/ Display

SpecFetch == InitFetch /\ [][NextFetch]_vars

(***************************************************************************)
(* Vocabulary of the properties.                                           *)
(***************************************************************************)
Last == results[Len(results)]
\* two Python values are equal: of the same type, and the same
Same(x, y) == x.t = y.t /\ x = y
IsFailure(r) == "error" \in DOMAIN r
IsSuccess(r) == {"ranking", "problems_solved", "badges"} \subseteq DOMAIN r

\* the latest request came back with a record (it did not raise)
Returned == fetches > 0 /\ Len(results) = fetches
FetchRaised == fetches > 0 /\ Len(results) < fetches

HasKey(x, k) == x.t = "obj" /\ k \in DOMAIN x.v

\* status 200 and a body that is a JSON object
IsJsonObject(resp) ==
  /\ resp.exc = "none"
  /\ resp.status_code = 200
  /\ resp.body.valid
  /\ resp.body.value.t = "obj"

HasErrors(resp) == IsJsonObject(resp) /\ "errors" \in DOMAIN resp.body.value.v

\* a JSON object without 'errors' whose data object has no matchedUser, a
\* null one or an empty one
NoMatchedUser(resp) ==
  /\ IsJsonObject(resp)
  /\ ~HasErrors(resp)
  /\ HasKey(resp.body.value, "data")
  /\ resp.body.value.v["data"].t = "obj"
  /\ LET d == resp.body.value.v["data"]
     IN  \/ ~HasKey(d, "matchedUser")
         \/ d.v["matchedUser"] = Null
         \/ d.v["matchedUser"] = EmptyObj

HasMatchedUser(resp) ==
  /\ IsJsonObject(resp)
  /\ ~HasErrors(resp)
  /\ HasKey(resp.body.value, "data")
  /\ HasKey(resp.body.value.v["data"], "matchedUser")
  /\ resp.body.value.v["data"].v["matchedUser"].t = "obj"
  /\ resp.body.value.v["data"].v["matchedUser"] # EmptyObj

MatchedUser(resp) == resp.body.value.v["data"].v["matchedUser"]

ProfileOk(u) == HasKey(u, "profile") /\ HasKey(u.v["profile"], "ranking")
CountsOk(u) ==
  /\ HasKey(u, "submitStats")
  /\ HasKey(u.v["submitStats"], "acSubmissionNum")
  /\ u.v["submitStats"].v["acSubmissionNum"].t = "list"
  /\ LET items == u.v["submitStats"].v["acSubmissionNum"].v
     IN  \A k \in 1..Len(items) :
           HasKey(items[k], "count") /\ items[k].v["count"].t = "int"
BadgesNone(u) ==
  \/ ~HasKey(u, "badges")
  \/ u.v["badges"] = Null
  \/ u.v["badges"] = List(<<>>)
BadgesOk(u) ==
  \/ BadgesNone(u)
  \/ /\ u.v["badges"].t = "list"
     /\ \A k \in 1..Len(u.v["badges"].v) : HasKey(u.v["badges"].v[k], "displayName")

\* a well-formed success: every field fetch_user_data reads is there
WellFormed(resp) ==
  /\ HasMatchedUser(resp)
  /\ ProfileOk(MatchedUser(resp))
  /\ CountsOk(MatchedUser(resp))
  /\ BadgesOk(MatchedUser(resp))

\* the counts of the response, summed from the last entry to the first
CountTotal(resp) ==
  LET items == MatchedUser(resp).v["submitStats"].v["acSubmissionNum"].v
      T[k \in 0..Len(items)] ==
        IF k = 0 THEN 0 ELSE T[k - 1] + items[Len(items) + 1 - k].v["count"].v
  IN  T[Len(items)]

(***************************************************************************)
(* Properties of fetch_user_data (under SpecFetch).                        *)
(***************************************************************************)

\* C1: fetch_user_data never raises: every request issued comes back with a
\* record (transport failure, any status, any body), and the record is a
\* Failure whenever the answer is not a well-formed success.
C1_FetchNeverRaises ==
  fetches > 0 =>
    /\ Returned
    /\ ~WellFormed(response) => IsFailure(Last)

\* C8: the answer is classified by the first rule that applies: (1) status
\* other than 200 gives "API error: <status>", (2) an 'errors' payload
\* gives that payload, (3) a null, empty or absent matchedUser gives "User
\* not found.", (4) a body that is not the expected structure gives
\* "Invalid API response: ...", (5) anything else is a Success.
C8_ClassifiedInOrder ==
  (fetches > 0 /\ response.exc = "none") =>
    /\ Returned
    /\ IF response.status_code # 200
       THEN /\ IsFailure(Last)
            /\ Same(Last.error, Str("API error: " \o StatusText(response.status_code)))
       ELSE IF HasErrors(response)
       THEN IsFailure(Last) /\ Same(Last.error, response.body.value.v["errors"])
       ELSE IF NoMatchedUser(response)
       THEN IsFailure(Last) /\ Same(Last.error, Str("User not found."))
       ELSE IF ~response.body.valid
       THEN /\ IsFailure(Last)
            /\ Same(Last.error, Str("Invalid API response: " \o response.body.detail))
       ELSE IF ~WellFormed(response)
       THEN IsFailure(Last)
       ELSE IsSuccess(Last)

\* C9: the Success record built from an answer has problems_solved equal to
\* floor(S / 2), S being the sum of 'count' over all acSubmissionNum entries
\* whatever their difficulty label; counts 20, 10, 8, 2 give 20.
C9_ProblemsSolvedIsHalfTheSum ==
  (Returned /\ IsSuccess(Last)) =>
    /\ WellFormed(response)
    /\ 2 * Last.problems_solved <= CountTotal(response)
    /\ CountTotal(response) < 2 * Last.problems_solved + 2
    /\ MatchedUser(response).v["submitStats"] = Stats(Submissions(ExampleCounts))
         => Last.problems_solved = 20

\* C9 witness: a Success record whose counts sum to an odd number above 1
C9_Witness_OddSum ==
  /\ Returned
  /\ IsSuccess(Last)
  /\ CountTotal(response) % 2 = 1
  /\ CountTotal(response) > 1
  /\ Last.problems_solved >= 1

\* the badges cell of the one row rendered, when a table was rendered
ShownBadges ==
  LET item == out[Len(out)]
  IN  IF item.fn = "print_table" THEN item.rows[1][4] ELSE item.rows[1]["badges"]

TableShown ==
  /\ out # <<>>
  /\ out[Len(out)].fn \in {"print_table", "st.dataframe"}

\* C10: an otherwise well-formed answer whose badges are an empty list, a
\* missing key or null gives a Success record with no badges (the empty
\* list; on the web page, whose records hold the badges already joined, the
\* text "None"), and the renderer shows "None" in its badges column.
C10_NoBadgesIsSuccess ==
  (fetches > 0 /\ WellFormed(response) /\ BadgesNone(MatchedUser(response))) =>
    /\ Returned
    /\ IsSuccess(Last)
    /\ \/ Same(Last.badges, List(<<>>))
       \/ entry = "web" /\ Same(Last.badges, Str("None"))
    /\ pc = "exit" => (TableShown /\ Same(ShownBadges, Str("None")))

(***************************************************************************)
(* Properties of whole runs (under Spec).                                  *)
(***************************************************************************)
Count(seq, u) == Cardinality({k \in 1..Len(seq) : seq[k] = u})
Names(recs) == [k \in 1..Len(recs) |-> recs[k].username]

\* C2: one fetch per input position, in input order: when the run of an
\* accepted input has ended, as many requests were issued and as many
\* records returned as there are usernames, the i-th record carrying the
\* i-th username.
C2_OneRecordPerInput ==
  (pc = "exit" /\ usernames # <<>>) =>
    /\ fetches = Len(usernames)
    /\ Names(results) = usernames

\* the number of usernames the input text holds, counted from its
\* separators
TokenCount(src) ==
  IF src.kind = "usernames"
  THEN Cardinality({k \in 1..Len(src.text) : src.text[k] = ","}) + 1
  ELSE Cardinality({k \in 1..Len(src.text) : src.text[k] = "\n"})
         + (IF src.text # <<>> /\ src.text[Len(src.text)] # "\n" THEN 1 ELSE 0)

HasText(src) == src.kind \in {"file", "usernames", "upload"}
Cap == IF entry = "cli" THEN CliCap ELSE WebCap

\* no source given, file missing or unreadable, or more usernames than the
\* entry point's cap
IsInputError ==
  IF entry = "cli"
  THEN \/ source.kind \in {"none", "file_missing", "file_unreadable"}
       \/ source.kind = "usernames" /\ source.text = <<>>
       \/ HasText(source) /\ TokenCount(source) > CliCap
  ELSE \/ source.kind = "upload_undecodable"
       \/ HasText(source) /\ TokenCount(source) > WebCap

ErrorReported ==
  \E k \in 1..Len(out) :
    \/ out[k].fn = "st.error"
    \/ out[k].fn = "print" /\ out[k].msg \in
         { "Error: The number of usernames cannot exceed 100.",
           "Error: File not found: names.txt",
           "Error: Permission denied: names.txt",
           "Error: Provide either a file path or a list of usernames." }

ShownRanks ==
  LET item == out[Len(out)]
  IN  [k \in 1..Len(item.rows) |->
         IF item.fn = "print_table" THEN item.rows[k][2] ELSE item.rows[k]["ranking"]]

\* C4: both renderers show the Success records in ascending order of rank.
C4_RowsAscendingByRank ==
  (pc = "exit" /\ TableShown) =>
    \A i, j \in 1..Len(ShownRanks) :
      (i < j /\ ShownRanks[i].t = "int" /\ ShownRanks[j].t = "int")
        => ShownRanks[i].v <= ShownRanks[j].v

ShownName(row, fn) == IF fn = "print_table" THEN row[1] ELSE row["username"]
Placeholders(row, fn) ==
  IF fn = "print_table"
  THEN /\ Same(row[2], Str("Error"))
       /\ Same(row[3], Str("-"))
       /\ Same(row[4], Str("-"))
  ELSE row["ranking"] = NaN /\ row["problems_solved"] = NaN /\ row["badges"] = NaN

\* C5: a non-empty batch result with at least one Failure record renders
\* without an error, one row per record, a Failure's row holding its
\* username and placeholders.
C5_FailuresRender ==
  ( /\ pc = "exit"
    /\ results # <<>>
    /\ Len(results) = Len(usernames)
    /\ \E k \in 1..Len(results) : IsFailure(results[k]) ) =>
    /\ raised = "none"
    /\ TableShown
    /\ LET item == out[Len(out)]
       IN  /\ Len(item.rows) = Len(results)
           /\ \A k \in 1..Len(results) :
                \E i \in 1..Len(item.rows) :
                  /\ Same(ShownName(item.rows[i], item.fn), Str(results[k].username))
                  /\ IsFailure(results[k]) => Placeholders(item.rows[i], item.fn)

\* C6 as stated: no two records of a batch result carry the same username.
C6_NoTwoRecordsShareName ==
  \A i, j \in 1..Len(results) :
    i # j => results[i].username # results[j].username

\* C6 as amended: every input position is fetched once, so a username has
\* as many records as the input has occurrences of it (never more while the
\* batch is being fetched), and records share a username only when the
\* input repeats it.
C6_OneRecordPerOccurrence ==
  /\ fetches <= Len(usernames)
  /\ Len(results) <= fetches
  /\ \A k \in 1..Len(results) :
       Count(Names(results), results[k].username)
         <= Count(usernames, results[k].username)
  /\ Len(results) = Len(usernames) =>
       \A k \in 1..Len(usernames) :
         Count(Names(results), usernames[k]) = Count(usernames, usernames[k])

\* C6 witness: the input repeats a username and the finished batch holds
\* two records for it
C6_Witness_RepeatedName ==
  /\ pc = "exit"
  /\ Len(results) = Len(usernames)
  /\ \E i, j \in 1..Len(results) :
       i # j /\ results[i].username = results[j].username

\* C7: when the identifier source yields no username at all, the entry
\* point shows a "no data" state.
C7_EmptyBatchShowsNoData ==
  ( /\ pc = "exit"
    /\ source.kind \in {"file", "upload"}
    /\ TokenCount(source) = 0 ) =>
    \E k \in 1..Len(out) : out[k].fn = "st.warning"

====
